---- MODULE Spec2Model ----
(***************************************************************************)
(* Model of HyperliquidClient (src/hyperliquid_client.py): the metadata    *)
(* cache, the size and price quantizers and the take-profit / stop-loss    *)
(* bracket builder.                                                        *)
(*                                                                         *)
(* Numbers.  Python floats are IEEE-754 binary64 values.  A float is       *)
(* represented by the decimal that repr()/str() prints for it (the         *)
(* shortest decimal that reads back as the same float), as a record        *)
(*      [neg |-> BOOLEAN, c |-> digits, e |-> exponent]                    *)
(* of value (-1)^neg * c * 10^e, c a big-endian sequence of decimal digits *)
(* without leading or trailing zeros (zero is c = << >>, e = 0).           *)
(* decimal.Decimal values use the same record, trailing zeros allowed.     *)
(* Float arithmetic converts to the binary value m * 2^x (53-bit m), does  *)
(* the exact operation, rounds to nearest-even and converts back, so a     *)
(* product such as 100 * 0.998 * 0.99 is 98.80199999999999 as in Python.   *)
(* Outside the model: infinities, NaN, subnormals, overflow, and results   *)
(* of 2^55 and above.                                                      *)
(***************************************************************************)
EXTENDS Integers, Sequences, FiniteSets, TLC

Max(a, b) == IF a >= b THEN a ELSE b
Min(a, b) == IF a <= b THEN a ELSE b

\* w, with v evaluated first.  Operator arguments are evaluated on first
\* use and a function [i \in S |-> e] value by value on every application;
\* comparing a value with itself evaluates it in full, once
Strict(v, w) == IF v = v THEN w ELSE w

\* v, evaluated in full
Forced(v) == IF v = v THEN v ELSE v

(***************************************************************************)
(* Natural numbers of any size: sequences of base-10000 limbs, the least   *)
(* significant first, without high zero limbs; << >> is 0.                 *)
(***************************************************************************)
Trim(a) ==
    LET nz == {i \in 1..Len(a) : a[i] # 0}
    IN  IF nz = {} THEN <<>>
        ELSE SubSeq(a, 1, CHOOSE i \in nz : \A j \in nz : j <= i)

\* one carry pass over the limb values v (each >= 0): every value keeps its
\* low four digits and hands the rest to the next position
CarryPass(v) ==
    Forced([i \in 1..(Len(v) + 2) |->
              (IF i <= Len(v) THEN v[i] % 10000 ELSE 0)
              + (IF i > 1 /\ i - 1 <= Len(v) THEN v[i - 1] \div 10000 ELSE 0)])

\* the limbs of the number with limb values w, each 0 .. 19998: position i
\* receives a carry iff some lower position overflows and every position
\* between passes the carry on
Ripple(w) ==
    LET over == {j \in 1..Len(w) : w[j] >= 10000}
    IN  IF over = {} THEN w
        ELSE Forced([i \in 1..(Len(w) + 1) |->
                       LET cin == \E j \in over :
                                     /\ j < i
                                     /\ \A k \in (j + 1)..(i - 1) : w[k] >= 9999
                       IN  ((IF i <= Len(w) THEN w[i] ELSE 0)
                            + (IF cin THEN 1 ELSE 0)) % 10000])

\* the number with the limb values v (each 0 .. 2^31 - 1)
Normalize(v) == Trim(Ripple(CarryPass(CarryPass(Forced(v)))))

Lim(a, i) == IF i <= Len(a) THEN a[i] ELSE 0

BAdd(a, b) == Normalize([i \in 1..Max(Len(a), Len(b)) |-> Lim(a, i) + Lim(b, i)])

\* the limbs of the number with limb values v, each -9999 .. 9999, the
\* number >= 0: position i is charged a borrow iff some lower position falls
\* short and every position between is exhausted
Borrow(v) ==
    LET short == {j \in 1..Len(v) : v[j] < 0}
    IN  Trim(Forced([i \in 1..Len(v) |->
                       LET bin == \E j \in short :
                                     /\ j < i
                                     /\ \A k \in (j + 1)..(i - 1) : v[k] <= 0
                       IN  (v[i] - (IF bin THEN 1 ELSE 0)) % 10000]))

\* a - b for a >= b
BSub(a, b) == Borrow(Forced([i \in 1..Len(a) |-> a[i] - Lim(b, i)]))

\* -1, 0, 1 as a < b, a = b, a > b
BCmp(a, b) ==
    IF Len(a) # Len(b) THEN (IF Len(a) < Len(b) THEN -1 ELSE 1)
    ELSE LET diff == {i \in 1..Len(a) : a[i] # b[i]}
         IN  IF diff = {} THEN 0
             ELSE LET i == CHOOSE j \in diff : \A k \in diff : k <= j
                  IN  IF a[i] < b[i] THEN -1 ELSE 1

\* a * k for a small k (0 <= k <= 200000)
BMulSmall(a, k) ==
    IF k = 1 THEN a ELSE Normalize([i \in 1..Len(a) |-> a[i] * k])

RECURSIVE ConvSum(_, _, _, _)
\* sum of a[j] * b[k + 1 - j] for j in i..Len(a)
ConvSum(a, b, k, i) ==
    IF i > Len(a) THEN 0
    ELSE (IF k + 1 - i >= 1 /\ k + 1 - i <= Len(b) THEN a[i] * b[k + 1 - i] ELSE 0)
         + ConvSum(a, b, k, i + 1)

\* a * b (for operands of at most 20 limbs)
BMul(a, b) ==
    IF a = <<>> \/ b = <<>> THEN <<>>
    ELSE Normalize([k \in 1..(Len(a) + Len(b) - 1) |-> ConvSum(a, b, k, 1)])

RECURSIVE MulPow(_, _, _, _)
\* a * k^n for a small k, by factors of at most k^c (k^c <= 200000)
MulPow(a, k, c, n) ==
    Strict(a, IF n <= 0 THEN a
              ELSE MulPow(BMulSmall(a, k ^ Min(c, n)), k, c, n - c))

\* a * 2^n
MulPow2(a, n) == MulPow(a, 2, 17, n)

\* a * 5^n
MulPow5(a, n) == MulPow(a, 5, 7, n)

One == <<1>>

IsOdd(a) == a # <<>> /\ a[1] % 2 = 1

(***************************************************************************)
(* Decimal digits (most significant first) of a number and back.           *)
(***************************************************************************)
StripZeros(c) ==
    LET nz == {i \in 1..Len(c) : c[i] # 0}
    IN  IF nz = {} THEN <<>>
        ELSE SubSeq(c, CHOOSE i \in nz : \A j \in nz : i <= j, Len(c))

Digits(a) ==
    StripZeros(Forced([j \in 1..(4 * Len(a)) |->
                         (a[((4 * Len(a) - j) \div 4) + 1]
                            \div (10 ^ ((4 * Len(a) - j) % 4))) % 10]))

\* the digit of weight 10^w of the digit sequence c
Dig(c, w) == IF w >= 0 /\ w < Len(c) THEN c[Len(c) - w] ELSE 0

Limbs(c) ==
    Trim(Forced([i \in 1..((Len(c) + 3) \div 4) |->
                   Dig(c, 4 * i - 4) + 10 * Dig(c, 4 * i - 3)
                   + 100 * Dig(c, 4 * i - 2) + 1000 * Dig(c, 4 * i - 1)]))

\* the digits of a small natural number
NatDigits(n) == Digits(Normalize(<<n>>))

Zeros(n) == [i \in 1..n |-> 0]

\* digits of c * 10^n
MulPow10(c, n) == IF c = <<>> THEN <<>> ELSE c \o Zeros(n)

\* digits of floor(c / 10^n)
DivPow10(c, n) == IF Len(c) <= n THEN <<>> ELSE SubSeq(c, 1, Len(c) - n)

\* c mod 10^n # 0
RemPow10NonZero(c, n) ==
    \E i \in 1..Len(c) : i > Len(c) - n /\ c[i] # 0

\* 2^i <= a for how many of the i in e .. e + 4, for p = 2^e
BitsFrom(a, p) == Cardinality({i \in 0..4 : BCmp(a, BMulSmall(p, 2 ^ i)) >= 0})

\* the number of bits of a > 0 that has lo + 1 to lo + 5 bits
BitLenAbove(a, lo) == lo + 1 + BitsFrom(a, MulPow2(One, lo + 1))

\* the number of bits of a > 0: 2^(BitLen - 1) <= a < 2^BitLen.  A number
\* of n decimal digits has between lo + 1 and lo + 5 bits for
\* lo = floor((n - 1) * 3.321)
BitLen(a) == BitLenAbove(a, ((Len(Digits(a)) - 1) * 3321) \div 1000)

(***************************************************************************)
(* Binary64 values: [neg, m, x] of value (-1)^neg * m * 2^x with           *)
(* 2^52 <= m < 2^53, or m = << >> for zero.                                *)
(***************************************************************************)
BinZero == [neg |-> FALSE, m |-> <<>>, x |-> 0]

\* the least mantissa
TwoTo52 == MulPow2(One, 52)

\* the mantissa q (53 bits) with exponent x, one more if up; a mantissa
\* that reaches 2^53 is 2^52 at the next exponent
RoundUp(q, x, up) ==
    IF ~up THEN [m |-> q, x |-> x]
    ELSE IF BAdd(q, One) = BMulSmall(TwoTo52, 2)
         THEN [m |-> TwoTo52, x |-> x + 1]
         ELSE [m |-> BAdd(q, One), x |-> x]

\* t / 10^sh for the digits t, times 2^x, rounded to a whole mantissa, ties
\* to even; sticky: plus a non-zero amount below one unit of t
RoundFraction(t, sh, x, sticky) ==
    RoundUp(Limbs(DivPow10(t, sh)), x,
            \/ Dig(t, sh - 1) > 5
            \/ /\ Dig(t, sh - 1) = 5
               /\ \/ RemPow10NonZero(t, sh - 1)
                  \/ sticky
                  \/ Dig(t, sh) % 2 = 1)

\* n * 2^s for n > 0 of l bits, rounded to 53 bits.  With sh bits to drop,
\* n / 2^sh = n * 5^sh / 10^sh: the quotient is the decimal digits of
\* n * 5^sh above the last sh, the fraction the last sh
RoundBits(n, s, sticky, l) ==
    IF l <= 53 THEN [m |-> MulPow2(n, 53 - l), x |-> s - (53 - l)]
    ELSE RoundFraction(Digits(MulPow5(n, l - 53)), l - 53, s + (l - 53), sticky)

\* n * 2^s (n > 0; sticky: plus a non-zero amount below one unit of n, and
\* then n has at least 55 bits) rounded to 53 bits, ties to even
RoundBin(n, s, sticky) == RoundBits(n, s, sticky, BitLen(n))

Signed(neg, mx) == [neg |-> neg, m |-> mx.m, x |-> mx.x]

\* the digits n2 divided by 10^k, times 2^-j, as a binary64 value
RoundQuotient(n2, k, j) ==
    RoundBin(Limbs(DivPow10(n2, k)), -j, RemPow10NonZero(n2, k))

\* float(s) for the decimal s: the nearest binary64 value.  A negative
\* exponent -k divides: the digits times 2^j, for j with 2^j / 10^k of at
\* least 56 bits, are divided by 10^k
DecToBin(d) ==
    IF StripZeros(d.c) = <<>> THEN BinZero
    ELSE Signed(d.neg,
           IF d.e >= 0
           THEN RoundBin(Limbs(MulPow10(StripZeros(d.c), d.e)), 0, FALSE)
           ELSE RoundQuotient(Digits(MulPow2(Limbs(d.c), 57 + (10 * (-d.e)) \div 3)),
                              -d.e, 57 + (10 * (-d.e)) \div 3))

\* the exact decimal expansion of a binary64 value
BinToDecExact(b) ==
    IF b.x >= 0 THEN [neg |-> b.neg, c |-> Digits(MulPow2(b.m, b.x)), e |-> 0]
    ELSE [neg |-> b.neg, c |-> Digits(MulPow5(b.m, -b.x)), e |-> b.x]

\* c rounded to its p leading digits, ties to even (the result may carry
\* into p + 1 digits)
RoundDigits(c, p) ==
    IF Len(c) <= p THEN c
    ELSE LET q    == SubSeq(c, 1, p)
             d    == c[p + 1]
             rest == \E i \in (p + 2)..Len(c) : c[i] # 0
             up   == d > 5 \/ (d = 5 /\ (rest \/ q[p] % 2 = 1))
         IN  IF up THEN Digits(BAdd(Limbs(q), One)) ELSE q

\* the canonical form of a decimal: no leading or trailing zeros in c;
\* zero is unsigned (-0.0 == 0.0 in Python)
NormDec(d) ==
    LET nz == {i \in 1..Len(d.c) : d.c[i] # 0}
    IN  IF nz = {} THEN [neg |-> FALSE, c |-> <<>>, e |-> 0]
        ELSE LET last == CHOOSE i \in nz : \A j \in nz : j <= i
             IN  [neg |-> d.neg,
                  c   |-> StripZeros(SubSeq(d.c, 1, last)),
                  e   |-> d.e + (Len(d.c) - last)]

\* the exact decimal ex rounded to p significant digits
ReprCand(ex, p) ==
    [neg |-> ex.neg, c |-> RoundDigits(ex.c, p),
     e |-> ex.e + Max(0, Len(ex.c) - p)]

\* the window around the exact value ex of b for a quarter q of the spacing
WindowOf(b, ex, q) ==
    [e0   |-> b.x - 2,
     v    |-> Limbs(MulPow10(ex.c, ex.e - (b.x - 2))),
     lo   |-> IF b.m = TwoTo52 THEN q ELSE BMulSmall(q, 2),
     hi   |-> BMulSmall(q, 2),
     even |-> ~IsOdd(b.m)]

\* the decimals that read back as b (b.x <= 2, that is, below 2^55), in
\* units of 10^e0 for e0 = b.x - 2, where a quarter of the spacing 2^b.x of
\* the floats around b is 5^(2 - b.x): those less than half a spacing from
\* the exact value v (a quarter below the smallest mantissa, where the
\* spacing below halves), and those exactly that far if b's mantissa is even
Window(b, ex) == WindowOf(b, ex, MulPow5(One, 2 - b.x))

\* whether c is in the window w
InWindow(c, w) ==
    IF BCmp(c, w.v) >= 0
    THEN BCmp(BSub(c, w.v), w.hi) + (IF w.even THEN 0 ELSE 1) <= 0
    ELSE BCmp(BSub(w.v, c), w.lo) + (IF w.even THEN 0 ELSE 1) <= 0

\* whether float(cand) is the float of the window w, for a decimal cand of
\* its sign whose exponent is at least that of its exact expansion
ReadsBack(w, cand) == InWindow(Limbs(MulPow10(cand.c, cand.e - w.e0)), w)

\* the exact decimal ex cut off or raised to p significant digits,
\* whichever of the two ReprCand(ex, p) is not
ReprOther(ex, p) ==
    [neg |-> ex.neg,
     c   |-> IF Len(ex.c) <= p THEN ex.c
             ELSE IF RoundDigits(ex.c, p) = SubSeq(ex.c, 1, p)
                  THEN Digits(BAdd(Limbs(SubSeq(ex.c, 1, p)), One))
                  ELSE SubSeq(ex.c, 1, p),
     e   |-> ex.e + Max(0, Len(ex.c) - p)]

\* whether a decimal of p significant digits reads back: the nearest to ex,
\* or else its other neighbour (below a power of two the floats are half as
\* far apart as above, and the neighbour on the far side may read back when
\* the nearest does not)
ReadsAt(ex, w, p) == ReadsBack(w, ReprCand(ex, p)) \/ ReadsBack(w, ReprOther(ex, p))

\* the decimal of p significant digits nearest to ex that reads back
ReprAt(ex, w, p) ==
    IF ReadsBack(w, ReprCand(ex, p)) THEN ReprCand(ex, p) ELSE ReprOther(ex, p)

\* the decimal of the least number p of significant digits that reads back,
\* and of those the nearest to the exact value ex (17 digits always do; if
\* p digits do, so do more)
Shortest(ex, w) ==
    ReprAt(ex, w, CHOOSE p \in 1..17 :
                     /\ p = 17 \/ ReadsAt(ex, w, p)
                     /\ p = 1 \/ ~ReadsAt(ex, w, p - 1))

\* the shortest decimal that reads back as b, of exact expansion ex
ShortestOf(b, ex) == NormDec(Shortest(ex, Window(b, ex)))

\* repr(x) / str(x): the shortest decimal that reads back as x
Repr(b) ==
    IF b.m = <<>> THEN [neg |-> FALSE, c |-> <<>>, e |-> 0]
    ELSE ShortestOf(b, BinToDecExact(b))

\* the float nearest to the canonical decimal n, as the float's repr (a
\* decimal of at most 15 significant digits is the repr of the float
\* nearest to it)
Nearest(n) == IF Len(n.c) <= 15 THEN n ELSE Repr(DecToBin(n))

\* float(d) for a decimal d
Float(d) == Nearest(NormDec(d))

\* the magnitudes na and nb, of signs sa and sb, times 2^x, added
AddAligned(sa, na, sb, nb, x) ==
    IF sa # sb /\ BCmp(na, nb) = 0 THEN BinZero
    ELSE Signed(IF sa = sb \/ BCmp(na, nb) > 0 THEN sa ELSE sb,
                RoundBin(IF sa = sb THEN BAdd(na, nb)
                         ELSE IF BCmp(na, nb) > 0 THEN BSub(na, nb)
                         ELSE BSub(nb, na),
                         x, FALSE))

\* x + y on binary64, round to nearest even
BinAdd(a, b) ==
    IF a.m = <<>> THEN b
    ELSE IF b.m = <<>> THEN a
    ELSE AddAligned(a.neg, MulPow2(a.m, a.x - Min(a.x, b.x)),
                    b.neg, MulPow2(b.m, b.x - Min(a.x, b.x)), Min(a.x, b.x))

BinMul(a, b) ==
    IF a.m = <<>> \/ b.m = <<>> THEN BinZero
    ELSE Signed(a.neg # b.neg, RoundBin(BMul(a.m, b.m), a.x + b.x, FALSE))

\* the digit h of the quotient, written after the digits hs, and the
\* remainder of r2 left
QuoTake(r2, hs, d, h) == [r |-> BSub(r2, BMulSmall(d, h)), h |-> Append(hs, h)]

\* the next digit of the quotient of r2 by d is the number of the
\* c in 1..15 with d * c <= r2
QuoDigit(r2, hs, d) ==
    QuoTake(r2, hs, d, Cardinality({c \in 1..15 : BCmp(BMulSmall(d, c), r2) <= 0}))

\* one step of the long division by d in base 16: the next digit of the
\* quotient and the remainder left
QuoStep(st, d) == QuoDigit(BMulSmall(st.r, 16), st.h, d)

RECURSIVE QuoSteps(_, _, _)
\* n more steps of the division
QuoSteps(st, d, n) ==
    Strict(st, IF n = 0 THEN st ELSE QuoSteps(QuoStep(st, d), d, n - 1))

\* the result of the division: the digits, and whether a remainder is left
QuoEnd(st) == [h |-> st.h, rest |-> st.r # <<>>]

\* the first 14 base-16 digits of r / d (r < d), and whether a remainder is
\* left
QuoHex(r, d) == QuoEnd(QuoSteps([r |-> r, h |-> <<>>], d, 14))

\* the number with the seven base-16 digits h[i + 1] .. h[i + 7]
Hex7(h, i) ==
    h[i + 1] * 16^6 + h[i + 2] * 16^5 + h[i + 3] * 16^4 + h[i + 4] * 16^3
    + h[i + 5] * 16^2 + h[i + 6] * 16 + h[i + 7]

\* the quotient 1.h or 0.h (lead 1 or 0) of 14 base-16 digits h, times
\* 2^(x + 56), rounded
RoundQuo(lead, qh, x) ==
    Strict(qh, RoundBin(BAdd(MulPow2(Normalize(<<lead * 2^28 + Hex7(qh.h, 0)>>), 28),
                             Normalize(<<Hex7(qh.h, 7)>>)),
                        x, qh.rest))

\* a / b on binary64 for b # 0, round to nearest even: the quotient of the
\* mantissas to 56 binary places, then rounded
BinDiv(a, b) ==
    IF a.m = <<>> THEN BinZero
    ELSE Signed(a.neg # b.neg,
           RoundQuo(IF BCmp(a.m, b.m) >= 0 THEN 1 ELSE 0,
                    QuoHex(IF BCmp(a.m, b.m) >= 0 THEN BSub(a.m, b.m) ELSE a.m, b.m),
                    a.x - b.x - 56))

(***************************************************************************)
(* Python float operators on floats given by their repr.                   *)
(***************************************************************************)
FNeg(a) == IF a.c = <<>> THEN a ELSE [a EXCEPT !.neg = ~a.neg]
FAdd(a, b) == Repr(BinAdd(DecToBin(a), DecToBin(b)))
FSub(a, b) == FAdd(a, FNeg(b))
FMul(a, b) == Repr(BinMul(DecToBin(a), DecToBin(b)))
FDiv(a, b) == Repr(BinDiv(DecToBin(a), DecToBin(b)))

\* a decimal from an integer coefficient: n * 10^e
Dec(n, e) == NormDec([neg |-> n < 0, c |-> NatDigits(IF n < 0 THEN -n ELSE n),
                      e |-> e])

(***************************************************************************)
(* Comparisons and decimal.Decimal operations.                             *)
(***************************************************************************)
\* 0.0, and Decimal(0)
Zero == [neg |-> FALSE, c |-> <<>>, e |-> 0]

IsZero(d) == StripZeros(d.c) = <<>>

\* -1, 0, 1 as |a| < |b|, |a| = |b|, |a| > |b|
MagCmp(a, b) ==
    BCmp(Limbs(MulPow10(StripZeros(a.c), a.e - Min(a.e, b.e))),
         Limbs(MulPow10(StripZeros(b.c), b.e - Min(a.e, b.e))))

\* -1, 0, 1 as a < b, a = b, a > b
DecCmp(a, b) ==
    IF IsZero(a) /\ IsZero(b) THEN 0
    ELSE IF IsZero(a) THEN (IF b.neg THEN 1 ELSE -1)
    ELSE IF IsZero(b) THEN (IF a.neg THEN -1 ELSE 1)
    ELSE IF a.neg # b.neg THEN (IF a.neg THEN -1 ELSE 1)
    ELSE (IF a.neg THEN -1 ELSE 1) * MagCmp(a, b)

DecLE(a, b) == DecCmp(a, b) <= 0
DecLT(a, b) == DecCmp(a, b) < 0

\* abs(x)
FAbs(a) == [a EXCEPT !.neg = FALSE]

\* Decimal("1").scaleb(k): 10^k
Pow10Dec(k) == [neg |-> FALSE, c |-> <<1>>, e |-> k]

\* the digits c without the last drop, plus one unit if up and any of the
\* digits dropped is not 0
DropDigits(c, drop, up) ==
    IF up /\ RemPow10NonZero(c, drop)
    THEN Digits(BAdd(Limbs(DivPow10(c, drop)), One))
    ELSE DivPow10(c, drop)

\* d.quantize(step, rounding): d at the exponent of step; ROUND_DOWN drops
\* the digits below it, ROUND_UP then adds one unit if any of them is not 0
Quantize(d, step, up) ==
    [neg |-> d.neg,
     c   |-> IF d.e >= step.e THEN MulPow10(StripZeros(d.c), d.e - step.e)
             ELSE DropDigits(d.c, step.e - d.e, up),
     e   |-> step.e]

\* the exact value ex, of more than d decimals, rounded to d decimals
\* (ties to even)
RoundDecimals(ex, d) ==
    [neg |-> ex.neg,
     c   |-> StripZeros(RoundDigits(Zeros(Max(0, 1 - d - ex.e - Len(ex.c))) \o ex.c,
                                    Max(Len(ex.c), 1 - d - ex.e) - (-d - ex.e))),
     e   |-> -d]

\* the exact value ex to d decimals
FixedDecimals(ex, d) ==
    IF ex.e >= -d THEN Quantize(ex, Pow10Dec(-d), FALSE) ELSE RoundDecimals(ex, d)

\* f"{x:.{d}f}": the exact value of the float x rounded to d decimals
FormatFixed(x, d) ==
    IF IsZero(x) THEN [neg |-> FALSE, c |-> <<>>, e |-> -d]
    ELSE FixedDecimals(BinToDecExact(DecToBin(x)), d)

(***************************************************************************)
(* HyperliquidClient: the quantizers.                                      *)
(***************************************************************************)
\* Decimal("0.000001")
MinStep == [neg |-> FALSE, c |-> <<1>>, e |-> -6]

\* math.log10 returns a float, and the floats around an integer k are
\* spaced some 10^-16 * |k| apart: for px just below 10^k the logarithm is
\* nearer to k than to any float below k, and log10 returns k itself.  The
\* entry for k = -307 .. 16 (every power of ten above a normal float below
\* 2^55) is the s for which the floats px < 10^k with log10(px) = k, as the
\* C library's log10 gives it, are those from 10^k - s * 10^(k - 17) on;
\* s = 0 where there is none (k = 0 and k = 1)
Log10Slack ==
    <<
      6530, 6540, 6540, 6540, 6550, 6540, 6540, 6550, 6540, 6540, 6550, 6550,
      6530, 6530, 6540, 6540, 6540, 6540, 6540, 6540, 6550, 6540, 6540, 6540,
      6540, 6550, 6540, 6540, 6550, 6540, 6540, 6540, 6530, 6540, 6540, 6540,
      6540, 6530, 6540, 6540, 6540, 6540, 6540, 6540, 6540, 6540, 6530, 6540,
      6540, 6540, 6550, 6540, 3260, 3260, 3260, 3260, 3270, 3270, 3270, 3280,
      3270, 3270, 3260, 3280, 3270, 3270, 3270, 3270, 3270, 3270, 3260, 3270,
      3270, 3270, 3270, 3270, 3280, 3270, 3270, 3260, 3260, 3270, 3260, 3260,
      3270, 3270, 3270, 3260, 3270, 3270, 3270, 3260, 3270, 3270, 3270, 3260,
      3260, 3270, 3260, 3280, 3260, 3260, 3280, 3280, 3270, 3270, 3270, 3270,
      3260, 3260, 3270, 3260, 3260, 3270, 3270, 3260, 3270, 3260, 3280, 3270,
      3260, 3270, 3270, 3260, 3280, 3270, 3270, 3270, 3270, 3270, 3270, 3260,
      3270, 3270, 3260, 3270, 3270, 3260, 3260, 3270, 3260, 3280, 3260, 3260,
      3280, 3260, 3250, 3270, 3260, 3270, 3270, 3270, 3270, 3270, 3270, 3260,
      3260, 3270, 3260, 3270, 3270, 3260, 3260, 3260, 3270, 3270, 3270, 3260,
      3280, 3260, 3270, 3260, 3260, 3270, 3280, 3270, 3270, 3270, 3260, 3260,
      1640, 1630, 1640, 1640, 1620, 1630, 1640, 1640, 1640, 1630, 1630, 1630,
      1630, 1640, 1630, 1630, 1630, 1630, 1630, 1620, 1630, 1630, 1630, 1630,
      1630, 1630, 1630, 1630, 1640, 1630, 1630, 1630, 1630, 1630, 1650, 1640,
      1630, 1640, 1640, 1640, 1630, 1630, 1630, 1630, 1640, 1630, 1630, 1630,
      1630, 1630, 1640, 1630, 1640, 1630, 1630, 1640, 1640, 1630, 1630, 1620,
      1640, 1640, 1630, 1620, 820, 820, 800, 820, 820, 810, 810, 810,
      820, 810, 810, 820, 820, 820, 820, 810, 820, 810, 810, 810,
      800, 810, 820, 820, 800, 810, 800, 800, 810, 820, 820, 820,
      400, 400, 400, 410, 400, 400, 400, 400, 400, 410, 400, 410,
      400, 400, 410, 410, 200, 200, 200, 200, 200, 200, 200, 200,
      100, 100, 100, 100, 40, 50, 20, 0, 0, 10, 60, 40,
      90, 100, 100, 90, 210, 200, 200, 210, 200, 190, 200, 200 >>

\* the least k and the largest k of the table
Log10Least == -307

Log10Most == Log10Least + Len(Log10Slack) - 1

\* the least float below 10^k whose log10 is computed as k, for a k with one
Log10Edge(k) ==
    [neg |-> FALSE,
     c   |-> [i \in 1..13 |-> 9] \o
             SubSeq(NatDigits(20000 - Log10Slack[k - Log10Least + 1]), 2, 5),
     e   |-> k - 17]

\* whether px < 10^k is within the slack below 10^k
Log10Rounds(px, k) ==
    /\ k \in Log10Least..Log10Most
    /\ Log10Slack[k - Log10Least + 1] > 0
    /\ DecLE(Log10Edge(k), px)

\* int(math.floor(math.log10(px))) for px > 0: the exponent of the leading
\* digit, or one more for px within the slack below the next power of ten
Log10Floor(px) ==
    IF Log10Rounds(px, Len(px.c) + px.e)
    THEN Len(px.c) + px.e ELSE Len(px.c) + px.e - 1

\* a faulty variant of AtLeast: the step is not bounded below (C8 fails
\* with it)
AtLeast_Unbounded(step, min_step) == step

\* lines 95-97: the step, at least min_step
AtLeast(step, min_step) == IF DecLT(step, min_step) THEN min_step ELSE step

\* _price_step_sigfigs(px)
PriceStepSigfigs(px) ==
    IF DecLE(px, Zero) THEN MinStep
    ELSE AtLeast(Pow10Dec(Log10Floor(px) - 4), MinStep)

\* a faulty variant of RoundPrice: the direction is ignored and the price
\* always rounded down (C7 fails with it)
RoundPrice_Down(px, rounding) == Float(Quantize(px, PriceStepSigfigs(px), FALSE))

\* _round_price(px, rounding)
RoundPrice(px, rounding) ==
    Float(Quantize(px, PriceStepSigfigs(px), rounding = "up"))

\* a faulty variant of AtLeastOneStep: a size that truncates to zero stays
\* zero (C6 fails with it)
AtLeastOneStep_None(sz_dec, step) == sz_dec

\* lines 79-80
AtLeastOneStep(sz_dec, step) == IF DecLE(sz_dec, Zero) THEN step ELSE sz_dec

\* _round_size from the decimals d on: lines 75-83
RoundSizeValue(d, raw_sz) ==
    Float(FormatFixed(Float(AtLeastOneStep(Quantize(raw_sz, Pow10Dec(-d), FALSE),
                                           Pow10Dec(-d))),
                      d))

(***************************************************************************)
(* The arguments the quantizers are tried on.                              *)
(***************************************************************************)
\* a positive float from the digits of its repr
Num(c, e) == [neg |-> FALSE, c |-> c, e |-> e]

\* raw sizes: below, at and above one lot step, with more decimals than any
\* step, 0.1 + 0.2, a whole number, zero and a negative size
RawSizes ==
    { Dec(2, -4), Dec(1, -3), Dec(5, -3), Dec(19, -3), Dec(5, -1),
      Dec(1234567, -6), Dec(25, -1), Dec(123456789, -6), Dec(7, 0),
      Dec(999995, -1), Dec(1, -9), Num(<<3,0,0,0,0,0,0,0,0,0,0,0,0,0,0,0,4>>, -17),
      Dec(0, 0), Dec(-5, -1) }

\* raw prices: sub-cent prices, prices on and off their grid, products of
\* the bracket arithmetic, prices just below a power of ten, and
\* non-positive prices
RawPrices ==
    { Dec(2, -4), Dec(3421, -8), Dec(1, -7), Dec(5, -7), Dec(12345, -6),
      Dec(123456, -7), Dec(3, -1), Num(<<3,0,0,0,0,0,0,0,0,0,0,0,0,0,0,0,4>>, -17),
      Dec(1, 0), Dec(998, -1), Dec(1002, -1), Dec(101, 0),
      Num(<<9,8,8,0,1,9,9,9,9,9,9,9,9,9,9,9>>, -14),
      Num(<<9,9,9,9,9,9,9,9,9,9,9,9,9,9,9,9>>, -13),
      Num(<<9,9,9,9,9,9,9,9,9,9,9,9,9,9>>, -14), Dec(12345, 0),
      Num(<<9,9,9,9,9,9,9,9,9,9,9,9,9,9,9,8>>, -6),
      Dec(999995, -1), Dec(1234567, -1),
      Dec(0, 0), Dec(-5, 0), Dec(-5, -7), Dec(-123456, -3) }

Roundings == {"down", "up"}

(***************************************************************************)
(* HyperliquidClient: the metadata cache.  The fields of the client are    *)
(* passed around as cs = [meta, cache, meta_calls]: _meta (<< >> for None, *)
(* else <<snapshot>>), _sz_decimals_cache, and the number of calls of      *)
(* info.meta() so far.  An operation that can raise returns ok = FALSE.    *)
(***************************************************************************)
\* info.meta()["universe"]: the instruments the exchange lists
Universe ==
    << [name |-> "BTC", szDecimals |-> 5], [name |-> "ETH", szDecimals |-> 2],
       [name |-> "DOGE", szDecimals |-> 0], [name |-> "AVAX", szDecimals |-> 1],
       [name |-> "SOL", szDecimals |-> 3], [name |-> "BNB", szDecimals |-> 4] >>

\* the szDecimals of the instruments listed
SzDecimals == {Universe[i].szDecimals : i \in DOMAIN Universe}

\* the coins of the calls of the trading operations; XYZ is not listed
Coins == {"BTC", "ETH", "XYZ"}

\* the coins of the calls of _round_size: every instrument listed, and XYZ
QuantCoins == {Universe[i].name : i \in DOMAIN Universe} \cup {"XYZ"}

\* a faulty variant of LoadMeta: the snapshot is fetched on every lookup that
\* misses the cache (C10 fails with it)
LoadMeta_Always(cs) == [cs EXCEPT !.meta = <<Universe>>, !.meta_calls = @ + 1]

\* _load_meta()
LoadMeta(cs) ==
    IF cs.meta = <<>>
    THEN [cs EXCEPT !.meta = <<Universe>>, !.meta_calls = @ + 1]
    ELSE cs

RECURSIVE FindSzDecimals(_, _, _)
\* lines 62-68 of _get_sz_decimals, from the i-th item of the universe on
FindSzDecimals(cs, coin, i) ==
    IF i > Len(cs.meta[1]) THEN [ok |-> FALSE, d |-> 0, cs |-> cs]
    ELSE IF cs.meta[1][i].name = coin
         THEN [ok |-> TRUE, d |-> cs.meta[1][i].szDecimals,
               cs |-> [cs EXCEPT !.cache = (coin :> cs.meta[1][i].szDecimals) @@ @]]
         ELSE FindSzDecimals(cs, coin, i + 1)

\* _get_sz_decimals(coin): [ok, d, cs]
GetSzDecimals(cs, coin) ==
    IF coin \in DOMAIN cs.cache
    THEN [ok |-> TRUE, d |-> cs.cache[coin], cs |-> cs]
    ELSE FindSzDecimals(LoadMeta(cs), coin, 1)

(***************************************************************************)
(* What the exchange answers.  Numbers arrive as strings; a string is the  *)
(* decimal it spells.  A missing key is << >>, a present one <<value>>.    *)
(***************************************************************************)
\* info.all_mids(): no quotes at all, or a quote for every coin
NoMids == [c \in {} |-> Zero]

AllMids ==
    [c \in Coins |-> CASE c = "BTC" -> Dec(642505, -1)
                       [] c = "ETH" -> Dec(312025, -2)
                       [] OTHER     -> Dec(421, -4)]

Mids == {NoMids, AllMids}

\* position["szi"] of an open position: long and short, on the lot grid of
\* every listed coin, below one lot of ETH, and finer than either grid
Szis == {Dec(5, -1), Dec(-5, -1), Dec(5, -3), Dec(-1234567, -6)}

\* position.get("entryPx"): missing, zero, or a price
EntryPxs == {<<>>, <<Dec(0, 0)>>, <<Dec(100, 0)>>}

\* the open positions info.user_state() may report for a coin
OpenPositions(coin) ==
    {[coin |-> coin, szi |-> z, entryPx |-> e] : z \in Szis, e \in EntryPxs}

\* entries has_position passes over: a position in another coin and a
\* closed position (size zero) in the coin, by turns
OtherCoin(coin) == IF coin = "BTC" THEN "ETH" ELSE "BTC"

Passed(coin, i) ==
    IF i % 2 = 1
    THEN [coin |-> OtherCoin(coin), szi |-> Dec(-25, -1), entryPx |-> <<Dec(100, 0)>>]
    ELSE [coin |-> coin, szi |-> Dec(0, 0), entryPx |-> <<Dec(100, 0)>>]

\* the most entries in front of the coin's open position
MaxPassed == 2

\* info.user_state()["assetPositions"] for a call about coin: the entries
\* passed over, then the open position of the coin if there is one
AssetPositions(coin) ==
    {[i \in 1..n |-> Passed(coin, i)] \o o :
        n \in 0..MaxPassed, o \in {<<>>} \cup {<<p>> : p \in OpenPositions(coin)}}

\* (tp_pct, sl_pct): the defaults and another pair
Pcts == {<<Dec(1, -2), Dec(2, -3)>>, <<Dec(5, -2), Dec(2, -2)>>}

\* slippage given to the constructor: the default and another
Slippages == {Dec(1, -2), Dec(5, -3)}

\* notional_usdc of open_long
Notionals == {Dec(50, 0), Dec(1000, 0)}

\* float(s) for the numbers the exchange and the caller hand over, computed
\* once per number
Handed ==
    Szis \cup {Passed("BTC", i).szi : i \in 1..2} \cup {e[1] : e \in EntryPxs \ {<<>>}}
         \cup {AllMids[c] : c \in Coins} \cup Notionals

FloatMemo == Forced([d \in Handed |-> Float(d)])

ToFloat(d) == FloatMemo[d]


(***************************************************************************)
(* HyperliquidClient: market data, positions and orders.                   *)
(***************************************************************************)
\* get_mid_price(coin) on the answer mids of info.all_mids(): [ok, px]
GetMidPrice(mids, coin) ==
    IF coin \in DOMAIN mids
    THEN [ok |-> TRUE, px |-> ToFloat(mids[coin])]
    ELSE [ok |-> FALSE, px |-> Zero]

RECURSIVE HasPositionFrom(_, _, _)
\* the loop of has_position, from the i-th entry of assetPositions on
HasPositionFrom(positions, coin, i) ==
    IF i > Len(positions) THEN <<>>
    ELSE IF /\ positions[i].coin = coin
            /\ DecLT(Zero, FAbs(ToFloat(positions[i].szi)))
         THEN <<positions[i]>>
         ELSE HasPositionFrom(positions, coin, i + 1)

\* has_position(coin) on the assetPositions of info.user_state(): the first
\* position of the coin with abs(szi) > 0 as <<pos>>, or << >> for
\* (False, None)
HasPosition(positions, coin) == HasPositionFrom(positions, coin, 1)

\* the floats the client quantizes as sizes: abs(szi) of the positions, and
\* notional / mid of open_long
PositionSizes == {FAbs(ToFloat(z)) : z \in Szis}

OrderSizeMemo ==
    Forced([a \in {ToFloat(n) : n \in Notionals} \X {ToFloat(AllMids[c]) : c \in Coins} |->
              FDiv(a[1], a[2])])

OrderSizes == {OrderSizeMemo[a] : a \in DOMAIN OrderSizeMemo}

\* the results of the quantizers, computed once per argument
RoundSizeMemo ==
    Forced([a \in SzDecimals \X (RawSizes \cup PositionSizes \cup OrderSizes) |->
              RoundSizeValue(a[1], a[2])])

PriceStepMemo == Forced([px \in RawPrices |-> PriceStepSigfigs(px)])

RoundPriceMemo == Forced([a \in RawPrices \X Roundings |-> RoundPrice(a[1], a[2])])

\* a faulty variant of RoundSizeTo: the size is passed on as it came (C3
\* fails with it)
RoundSizeTo_Raw(g, raw_sz) ==
    IF g.ok
    THEN [ok |-> TRUE, sz |-> raw_sz, cs |-> g.cs]
    ELSE [ok |-> FALSE, sz |-> Zero, cs |-> g.cs]

\* lines 75-83 of _round_size, with the answer g of _get_sz_decimals
RoundSizeTo(g, raw_sz) ==
    IF g.ok
    THEN [ok |-> TRUE, sz |-> RoundSizeMemo[<<g.d, raw_sz>>], cs |-> g.cs]
    ELSE [ok |-> FALSE, sz |-> Zero, cs |-> g.cs]

\* _round_size(coin, raw_sz): [ok, sz, cs]
RoundSize(cs, coin, raw_sz) == RoundSizeTo(GetSzDecimals(cs, coin), raw_sz)

\* lines 201-220: the factors 1 + tp_pct, 1 - sl_pct, 1 - slippage of a long
\* position, 1 - tp_pct, 1 + sl_pct, 1 + slippage of a short one
BracketFactors(tp_pct, sl_pct, slip, is_long) ==
    Forced([i \in 1..3 |->
              FAdd(Dec(1, 0),
                   IF (i = 1) = is_long THEN <<tp_pct, sl_pct, slip>>[i]
                   ELSE FNeg(<<tp_pct, sl_pct, slip>>[i]))])

\* tp_trigger and sl_trigger before rounding
Triggers(entry_px, f) == Forced([i \in 1..2 |-> FMul(entry_px, f[i])])

\* tp_trigger, sl_trigger, then tp_limit and sl_limit, before rounding
WithLimits(t, f) == Strict(t, t \o [i \in 1..2 |-> FMul(t[i], f[3])])

\* the prices of a position entered at entry_px, before rounding
UnroundedPrices(entry_px, f) == Strict(f, WithLimits(Triggers(entry_px, f), f))

\* a faulty variant of RoundedPrices: the prices of a short position are
\* rounded down as well (C4 fails with it)
RoundedPrices_Down(raw, rounding) ==
    Strict(raw, Forced([i \in 1..4 |-> RoundPrice(raw[i], "down")]))

\* the four prices, rounded
RoundedPrices(raw, rounding) ==
    Strict(raw, Forced([i \in 1..4 |-> RoundPrice(raw[i], rounding)]))

PricesOf(r) ==
    Strict(r, [tp_trigger |-> r[1], sl_trigger |-> r[2],
               tp_limit |-> r[3], sl_limit |-> r[4]])

\* the four prices of set_tp_sl_for_position, lines 201-220
BracketPrices(entry_px, tp_pct, sl_pct, slip, is_long) ==
    PricesOf(RoundedPrices(
                UnroundedPrices(entry_px,
                                BracketFactors(tp_pct, sl_pct, slip, is_long)),
                IF is_long THEN "down" ELSE "up"))

\* the reference prices a bracket can start from: a recorded entry price
\* above zero, or a mid price
EntryPrices ==
    {ToFloat(e[1]) : e \in {x \in EntryPxs : x # <<>> /\ DecLT(Zero, ToFloat(x[1]))}}
    \cup {ToFloat(AllMids[c]) : c \in Coins}

\* the brackets, computed once per argument
BracketMemo ==
    Forced([a \in EntryPrices \X Pcts \X Slippages \X BOOLEAN |->
              BracketPrices(a[1], a[2][1], a[2][2], a[3], a[4])])


\* how a call ends, and what it did on the way: the client's fields
\* after it, "return" or "raise" with the error, the value returned (<< >>
\* for None), the position found, the reference price used (each << >> if
\* none), the calls of exchange.bulk_orders (the order lists) and of
\* exchange.market_open (the arguments), and the numbers of calls of
\* info.all_mids and info.user_state
Ended(cs, outcome, error, result, found, entry_px, bulk, opens, mid_calls, state_calls) ==
    [cs |-> cs, outcome |-> outcome, error |-> error, result |-> result,
     found |-> found, entry_px |-> entry_px, bulk |-> bulk, opens |-> opens,
     mid_calls |-> mid_calls, state_calls |-> state_calls]

\* one order of the bracket, lines 229-256
TriggerOrder(coin, is_buy, sz, limit_px, trigger_px, tpsl) ==
    [coin |-> coin, is_buy |-> is_buy, sz |-> sz, limit_px |-> limit_px,
     triggerPx |-> trigger_px, isMarket |-> TRUE, tpsl |-> tpsl,
     reduce_only |-> TRUE]

\* a faulty variant of BracketOrders: the take-profit leg alone (C1 fails
\* with it)
BracketOrders_TpOnly(coin, close_is_buy, sz, p) ==
    << TriggerOrder(coin, close_is_buy, sz, p.tp_limit, p.tp_trigger, "tp") >>

\* lines 228-257: the order list, from the prices p
BracketOrders(coin, close_is_buy, sz, p) ==
    << TriggerOrder(coin, close_is_buy, sz, p.tp_limit, p.tp_trigger, "tp"),
       TriggerOrder(coin, close_is_buy, sz, p.sl_limit, p.sl_trigger, "sl") >>

\* float(pos.get("entryPx", 0) or 0), line 197
RecordedEntry(pos) == IF pos.entryPx = <<>> THEN Zero ELSE ToFloat(pos.entryPx[1])

\* a faulty variant of EntryPrice: the mid price is fetched whatever the
\* position records (C5 fails with it)
EntryPrice_AlwaysMid(recorded, mids, coin) ==
    [mid |-> GetMidPrice(mids, coin), mid_calls |-> 1]

\* lines 197-199: the reference price [ok, px] and the calls of
\* info.all_mids it took
EntryPrice(recorded, mids, coin) ==
    IF DecLE(recorded, Zero)
    THEN [mid |-> GetMidPrice(mids, coin), mid_calls |-> 1]
    ELSE [mid |-> [ok |-> TRUE, px |-> recorded], mid_calls |-> 0]

\* lines 201-260, with the reference price resolved or not
SubmitBracket(cs, slip, coin, tp_pct, sl_pct, found, is_long, sz, entry) ==
    IF ~entry.mid.ok
    THEN Ended(cs, "raise", "ValueError: no mid price", <<>>, found, <<>>,
               <<>>, <<>>, entry.mid_calls, 1)
    ELSE Ended(cs, "return", "", <<"response">>, found, <<entry.mid.px>>,
               <<[orders |-> BracketOrders(coin, IF is_long THEN FALSE ELSE TRUE, sz,
                                           BracketMemo[<<entry.mid.px, <<tp_pct, sl_pct>>,
                                                         slip, is_long>>]),
                  grouping |-> "positionTpsl"]>>,
               <<>>, entry.mid_calls, 1)

\* lines 192-260, with the size quantized or not
PlaceBracket(slip, mids, coin, tp_pct, sl_pct, found, szi, sz_abs) ==
    IF ~sz_abs.ok
    THEN Ended(sz_abs.cs, "raise", "ValueError: coin not in meta", <<>>, found,
               <<>>, <<>>, <<>>, 0, 1)
    ELSE SubmitBracket(sz_abs.cs, slip, coin, tp_pct, sl_pct, found,
                       DecLT(Zero, szi), sz_abs.sz,
                       EntryPrice(RecordedEntry(found[1]), mids, coin))

\* a faulty variant of ProtectPosition: the size decimals are looked up
\* before the position is examined (C2 fails with it)
ProtectPosition_Eager(cs, slip, mids, coin, tp_pct, sl_pct, found) ==
    IF found = <<>>
    THEN Ended(GetSzDecimals(cs, coin).cs, "return", "", <<>>, found, <<>>,
               <<>>, <<>>, 0, 1)
    ELSE PlaceBracket(slip, mids, coin, tp_pct, sl_pct, found,
                      ToFloat(found[1].szi),
                      RoundSize(cs, coin, FAbs(ToFloat(found[1].szi))))

\* lines 185-260, with the answer found of has_position
ProtectPosition(cs, slip, mids, coin, tp_pct, sl_pct, found) ==
    IF found = <<>>
    THEN Ended(cs, "return", "", <<>>, found, <<>>, <<>>, <<>>, 0, 1)
    ELSE PlaceBracket(slip, mids, coin, tp_pct, sl_pct, found,
                      ToFloat(found[1].szi),
                      RoundSize(cs, coin, FAbs(ToFloat(found[1].szi))))

\* set_tp_sl_for_position(coin, tp_pct, sl_pct) on a client with the fields
\* cs and the given slippage, when info.user_state() answers positions and
\* info.all_mids() answers mids
SetTpSlForPosition(cs, slip, positions, mids, coin, tp_pct, sl_pct) ==
    ProtectPosition(cs, slip, mids, coin, tp_pct, sl_pct,
                    HasPosition(positions, coin))

\* line 170, with the size quantized or not
OpenSized(slip, coin, sz) ==
    IF ~sz.ok
    THEN Ended(sz.cs, "raise", "ValueError: coin not in meta", <<>>, <<>>, <<>>,
               <<>>, <<>>, 1, 0)
    ELSE Ended(sz.cs, "return", "", <<"response">>, <<>>, <<>>, <<>>,
               <<[coin |-> coin, is_buy |-> TRUE, sz |-> sz.sz,
                  slippage |-> slip]>>, 1, 0)

\* lines 165-170, with the answer mid of get_mid_price
OpenAtMid(cs, slip, coin, notional_usdc, mid) ==
    IF ~mid.ok
    THEN Ended(cs, "raise", "ValueError: no mid price", <<>>, <<>>, <<>>,
               <<>>, <<>>, 1, 0)
    ELSE OpenSized(slip, coin,
                   RoundSize(cs, coin, OrderSizeMemo[<<ToFloat(notional_usdc), mid.px>>]))

\* open_long(coin, notional_usdc)
OpenLong(cs, slip, mids, coin, notional_usdc) ==
    OpenAtMid(cs, slip, coin, notional_usdc, GetMidPrice(mids, coin))


VARIABLES meta, sz_decimals_cache, meta_calls, slippage, call, quant

vars == <<meta, sz_decimals_cache, meta_calls, slippage, call, quant>>

EmptyCache == [c \in {} |-> 0]

\* the fields of the client as the operators take them
Fields == [meta |-> meta, cache |-> sz_decimals_cache, meta_calls |-> meta_calls]

\* the record of a call: arguments and answers, then how it ended
Call(op, coin, positions, mids, tp_pct, sl_pct, notional, r) ==
    [op |-> op, coin |-> coin, positions |-> positions, mids |-> mids,
     tp_pct |-> tp_pct, sl_pct |-> sl_pct, notional |-> notional,
     outcome |-> r.outcome, error |-> r.error, result |-> r.result,
     found |-> r.found, entry_px |-> r.entry_px, bulk |-> r.bulk,
     opens |-> r.opens, mid_calls |-> r.mid_calls,
     state_calls |-> r.state_calls]

NoCall ==
    Call("none", "", <<>>, NoMids, Zero, Zero, Zero,
         Ended(<<>>, "return", "", <<>>, <<>>, <<>>, <<>>, <<>>, 0, 0))

\* the record of an application of a quantizer: arguments, then how it ended
Quant(op, coin, x, rounding, ok, out) ==
    [op |-> op, coin |-> coin, x |-> x, rounding |-> rounding,
     outcome |-> IF ok THEN "return" ELSE "raise", out |-> out]

NoQuant == Quant("none", "", Zero, "", TRUE, Zero)

\* __init__, lines 43-47
Init ==
    /\ meta = <<>>
    /\ sz_decimals_cache = EmptyCache
    /\ meta_calls = 0
    /\ slippage \in Slippages
    /\ call = NoCall
    /\ quant = NoQuant

\* the fields after a call
Store(cs) ==
    /\ meta' = cs.meta
    /\ sz_decimals_cache' = cs.cache
    /\ meta_calls' = cs.meta_calls

\* a call of set_tp_sl_for_position
SetTpSl ==
    \E coin \in Coins, mids \in Mids, pc \in Pcts :
        \E positions \in AssetPositions(coin) :
            \E r \in {SetTpSlForPosition(Fields, slippage, positions, mids,
                                         coin, pc[1], pc[2])} :
                /\ Store(r.cs)
                /\ call' = Call("set_tp_sl_for_position", coin, positions, mids,
                                pc[1], pc[2], Zero, r)
                /\ UNCHANGED <<slippage, quant>>

\* a call of open_long
OpenLongCall ==
    \E coin \in Coins, mids \in Mids, n \in Notionals :
        \E r \in {OpenLong(Fields, slippage, mids, coin, n)} :
            /\ Store(r.cs)
            /\ call' = Call("open_long", coin, <<>>, mids, Zero, Zero, n, r)
            /\ UNCHANGED <<slippage, quant>>

\* how _get_sz_decimals ends, from its answer g
SzDecimalsAnswer(g) ==
    IF g.ok
    THEN Ended(g.cs, "return", "", <<g.d>>, <<>>, <<>>, <<>>, <<>>, 0, 0)
    ELSE Ended(g.cs, "raise", "ValueError: coin not in meta", <<>>,
               <<>>, <<>>, <<>>, <<>>, 0, 0)

\* a call of _get_sz_decimals
GetSzDecimalsCall ==
    \E coin \in Coins :
        \E r \in {SzDecimalsAnswer(GetSzDecimals(Fields, coin))} :
            /\ Store(r.cs)
            /\ call' = Call("_get_sz_decimals", coin, <<>>, NoMids, Zero, Zero, Zero, r)
            /\ UNCHANGED <<slippage, quant>>

Next == SetTpSl \/ OpenLongCall \/ GetSzDecimalsCall

Spec == Init /\ [][Next]_vars

(***************************************************************************)
(* The quantizers on their own: each step applies one of them to an input  *)
(* drawn from the sets above and records the call in quant.                *)
(***************************************************************************)
QInit ==
    /\ meta = <<>>
    /\ sz_decimals_cache = EmptyCache
    /\ meta_calls = 0
    /\ slippage = Dec(1, -2)
    /\ call = NoCall
    /\ quant = NoQuant

\* _round_size: the size decimals of the coin come from _get_sz_decimals,
\* which on a miss fetches the metadata and fills the cache, and raises for
\* a coin that is not listed
RoundSizeCall ==
    \E coin \in QuantCoins, x \in RawSizes :
        \E r \in {RoundSize(Fields, coin, x)} :
            /\ Store(r.cs)
            /\ quant' = Quant("_round_size", coin, x, "", r.ok, r.sz)
            /\ UNCHANGED <<slippage, call>>

\* _round_price
RoundPriceCall ==
    \E x \in RawPrices, rounding \in Roundings :
        /\ quant' = Quant("_round_price", "", x, rounding, TRUE,
                          RoundPriceMemo[<<x, rounding>>])
        /\ UNCHANGED <<meta, sz_decimals_cache, meta_calls, slippage, call>>

\* _price_step_sigfigs
PriceStepCall ==
    \E x \in RawPrices :
        /\ quant' = Quant("_price_step_sigfigs", "", x, "", TRUE, PriceStepMemo[x])
        /\ UNCHANGED <<meta, sz_decimals_cache, meta_calls, slippage, call>>

QNext == RoundSizeCall \/ RoundPriceCall \/ PriceStepCall

SpecQuant == QInit /\ [][QNext]_vars


(***************************************************************************)
(* Properties of the bracket builder, over the record of the last call.    *)
(***************************************************************************)
\* the last call was set_tp_sl_for_position
Bracketed == call.op = "set_tp_sl_for_position"

\* the entries of the coin whose size, as the exchange spelled it, is not zero
OpenEntries(positions, coin) ==
    {i \in DOMAIN positions : positions[i].coin = coin /\ ~IsZero(positions[i].szi)}

\* the exchange reports an open position of the coin of the last call
HasOpen == OpenEntries(call.positions, call.coin) # {}

\* the first of them
FirstOpen ==
    call.positions[CHOOSE i \in OpenEntries(call.positions, call.coin) :
                      \A j \in OpenEntries(call.positions, call.coin) : i <= j]

\* the coin is in the snapshot of the metadata
Listed(coin) == \E i \in DOMAIN Universe : Universe[i].name = coin

ListedDecimals(coin) ==
    Universe[CHOOSE i \in DOMAIN Universe : Universe[i].name = coin].szDecimals

\* the position records an entry price above zero
EntryRecorded(pos) == pos.entryPx # <<>> /\ DecLT(Zero, pos.entryPx[1])

\* the four prices as the claim derives them from the reference price
DerivedPrices(entry, tp, sl, slip, long) ==
    IF long
    THEN [tp_trigger |-> RoundPrice(FMul(entry, FAdd(Dec(1, 0), tp)), "down"),
          sl_trigger |-> RoundPrice(FMul(entry, FSub(Dec(1, 0), sl)), "down"),
          tp_limit   |-> RoundPrice(FMul(FMul(entry, FAdd(Dec(1, 0), tp)),
                                         FSub(Dec(1, 0), slip)), "down"),
          sl_limit   |-> RoundPrice(FMul(FMul(entry, FSub(Dec(1, 0), sl)),
                                         FSub(Dec(1, 0), slip)), "down")]
    ELSE [tp_trigger |-> RoundPrice(FMul(entry, FSub(Dec(1, 0), tp)), "up"),
          sl_trigger |-> RoundPrice(FMul(entry, FAdd(Dec(1, 0), sl)), "up"),
          tp_limit   |-> RoundPrice(FMul(FMul(entry, FSub(Dec(1, 0), tp)),
                                         FAdd(Dec(1, 0), slip)), "up"),
          sl_limit   |-> RoundPrice(FMul(FMul(entry, FAdd(Dec(1, 0), sl)),
                                         FAdd(Dec(1, 0), slip)), "up")]

\* the same for every reference price, percentage pair, slippage and side
DerivedMemo ==
    Forced([a \in EntryPrices \X Pcts \X Slippages \X BOOLEAN |->
              DerivedPrices(a[1], a[2][1], a[2][2], a[3], a[4])])

\* the orders carry the prices derived from the reference price entry
PricedFrom(orders, entry) ==
    /\ Len(orders) = 2
    /\ \A i \in 1..2 :
          /\ orders[i].triggerPx =
                 IF i = 1
                 THEN DerivedMemo[<<entry, <<call.tp_pct, call.sl_pct>>, slippage,
                                    DecLT(Zero, FirstOpen.szi)>>].tp_trigger
                 ELSE DerivedMemo[<<entry, <<call.tp_pct, call.sl_pct>>, slippage,
                                    DecLT(Zero, FirstOpen.szi)>>].sl_trigger
          /\ orders[i].limit_px =
                 IF i = 1
                 THEN DerivedMemo[<<entry, <<call.tp_pct, call.sl_pct>>, slippage,
                                    DecLT(Zero, FirstOpen.szi)>>].tp_limit
                 ELSE DerivedMemo[<<entry, <<call.tp_pct, call.sl_pct>>, slippage,
                                    DecLT(Zero, FirstOpen.szi)>>].sl_limit

\* the reference price the claims name: the recorded entry price if above
\* zero, else the quote
Reference ==
    IF EntryRecorded(FirstOpen) THEN ToFloat(FirstOpen.entryPx[1])
    ELSE ToFloat(call.mids[call.coin])

\* C1: a call of set_tp_sl_for_position submits nothing or one list of two
\* orders, a take-profit and a stop-loss; it raises, having submitted
\* nothing, when an open position has no entry price above zero and the coin
\* has no quote, and when the coin of an open position is not in the metadata
C1_NoPartialBracket ==
    Bracketed =>
        /\ Len(call.bulk) <= 1
        /\ \A i \in DOMAIN call.bulk :
              /\ Len(call.bulk[i].orders) = 2
              /\ {call.bulk[i].orders[j].tpsl : j \in 1..2} = {"tp", "sl"}
        /\ call.outcome = "raise" => call.bulk = <<>>
        /\ (HasOpen /\ ~Listed(call.coin)) => call.outcome = "raise"
        /\ (HasOpen /\ ~EntryRecorded(FirstOpen) /\ call.coin \notin DOMAIN call.mids)
              => call.outcome = "raise"

\* an open position without entry price, no quote: the call raised
C1_Witness ==
    /\ Bracketed /\ HasOpen /\ Listed(call.coin)
    /\ ~EntryRecorded(FirstOpen) /\ call.coin \notin DOMAIN call.mids
    /\ call.outcome = "raise" /\ call.bulk = <<>>

\* C2: a call of set_tp_sl_for_position for a coin of which the exchange
\* reports no position, or only positions of size zero, returns None, submits
\* nothing, asks for no mid price and leaves the metadata fields as they were
C2_NoPositionNoOp ==
    [][(call'.op = "set_tp_sl_for_position"
           /\ OpenEntries(call'.positions, call'.coin) = {})
        => /\ call'.outcome = "return" /\ call'.result = <<>>
           /\ call'.bulk = <<>> /\ call'.opens = <<>>
           /\ call'.mid_calls = 0
           /\ meta' = meta /\ meta_calls' = meta_calls
           /\ sz_decimals_cache' = sz_decimals_cache]_vars

\* a call for a coin with a closed position only, on a client that has never
\* fetched the metadata
C2_Witness ==
    /\ Bracketed /\ ~HasOpen
    /\ \E i \in DOMAIN call.positions : call.positions[i].coin = call.coin
    /\ call.outcome = "return" /\ call.result = <<>> /\ meta = <<>>

\* the pair of orders closes the first open position: two orders, tp then
\* sl, reduce-only, both selling a long position and buying a short one
ClosingPair(orders) ==
    /\ Len(orders) = 2
    /\ orders[1].tpsl = "tp" /\ orders[2].tpsl = "sl"
    /\ \A i \in 1..2 :
          /\ orders[i].reduce_only
          /\ orders[i].is_buy = ~DecLT(Zero, FirstOpen.szi)

\* C3 as stated: every list submitted is a closing pair and both orders have
\* the absolute size of the position
C3_FullSize ==
    Bracketed =>
        \A i \in DOMAIN call.bulk :
            /\ ClosingPair(call.bulk[i].orders)
            /\ \A j \in 1..2 :
                  call.bulk[i].orders[j].sz = FAbs(ToFloat(FirstOpen.szi))

\* C3, amended: every list submitted is a closing pair and both orders have
\* the absolute size of the position quantized by _round_size to the lot
\* step of the coin
C3_BracketPair ==
    Bracketed =>
        \A i \in DOMAIN call.bulk :
            /\ ClosingPair(call.bulk[i].orders)
            /\ \A j \in 1..2 :
                  call.bulk[i].orders[j].sz =
                      RoundSizeMemo[<<ListedDecimals(call.coin),
                                      FAbs(ToFloat(FirstOpen.szi))>>]

\* a bracket whose size is not the size of the position
C3_Witness ==
    /\ Bracketed /\ call.bulk # <<>>
    /\ call.bulk[1].orders[1].sz # FAbs(ToFloat(FirstOpen.szi))
    /\ call.bulk[1].orders[1].sz = call.bulk[1].orders[2].sz

\* C4: the prices of every bracket submitted are the ones derived from the
\* reference price of the call, rounded down for a long position and up for
\* a short one, the limits from the triggers before rounding; with entry
\* 100, tp 0.01 and sl 0.002 the triggers are 101.0 and 99.8 for a long
\* position, 99.0 and 100.2 for a short one
C4_PriceDerivation ==
    (Bracketed /\ call.bulk # <<>>) =>
        /\ call.entry_px # <<>>
        /\ PricedFrom(call.bulk[1].orders, call.entry_px[1])
        /\ (/\ call.entry_px[1] = Dec(100, 0)
            /\ call.tp_pct = Dec(1, -2) /\ call.sl_pct = Dec(2, -3))
           => /\ call.bulk[1].orders[1].triggerPx =
                    IF DecLT(Zero, FirstOpen.szi) THEN Dec(101, 0) ELSE Dec(99, 0)
              /\ call.bulk[1].orders[2].triggerPx =
                    IF DecLT(Zero, FirstOpen.szi) THEN Dec(998, -1)
                    ELSE Dec(1002, -1)

\* the bracket of a short position entered at 100 with the default
\* percentages
C4_Witness ==
    /\ Bracketed /\ call.bulk # <<>>
    /\ call.entry_px = <<Dec(100, 0)>>
    /\ call.tp_pct = Dec(1, -2) /\ call.sl_pct = Dec(2, -3)
    /\ DecLT(FirstOpen.szi, Zero)
    /\ call.bulk[1].orders[2].triggerPx = Dec(1002, -1)

\* C5 as stated: with an open position the mid price is never asked for when
\* the position records an entry price above zero, and the bracket is priced
\* from that price; otherwise it is asked for exactly once, and the bracket
\* is priced from the quote
C5_FallbackAlways ==
    (Bracketed /\ HasOpen) =>
        IF EntryRecorded(FirstOpen)
        THEN /\ call.mid_calls = 0
             /\ \A i \in DOMAIN call.bulk : PricedFrom(call.bulk[i].orders, Reference)
        ELSE /\ call.mid_calls = 1
             /\ \A i \in DOMAIN call.bulk : PricedFrom(call.bulk[i].orders, Reference)

\* C5, amended: with an open position the mid price is never asked for when
\* the position records an entry price above zero, and the bracket is priced
\* from that price; otherwise, if the coin is in the metadata, it is asked
\* for exactly once, and if there is a quote a bracket is submitted and
\* priced from the quote; if the coin is not in the metadata the call raises
\* before any mid price is asked for
C5_EntryFallback ==
    (Bracketed /\ HasOpen) =>
        /\ \A i \in DOMAIN call.bulk : PricedFrom(call.bulk[i].orders, Reference)
        /\ EntryRecorded(FirstOpen) => call.mid_calls = 0
        /\ (~EntryRecorded(FirstOpen) /\ Listed(call.coin)) =>
              /\ call.mid_calls = 1
              /\ call.coin \in DOMAIN call.mids => Len(call.bulk) = 1
        /\ ~Listed(call.coin) => (call.mid_calls = 0 /\ call.outcome = "raise")

\* a bracket priced from the quote
C5_Witness ==
    /\ Bracketed /\ HasOpen /\ ~EntryRecorded(FirstOpen)
    /\ call.mid_calls = 1 /\ Len(call.bulk) = 1
    /\ call.entry_px = <<ToFloat(call.mids[call.coin])>>

(***************************************************************************)
(* Properties of the metadata cache.                                       *)
(***************************************************************************)
\* C10: over the calls on one client info.meta() is called at most once; an
\* entry of the cache is never changed or removed; a call that looks up a
\* coin that is not in the snapshot leaves the cache as it was, and raises
\* if the call is the lookup itself
C10_MetadataCache ==
    [][/\ meta_calls' <= 1
       /\ \A c \in DOMAIN sz_decimals_cache :
             /\ c \in DOMAIN sz_decimals_cache'
             /\ sz_decimals_cache'[c] = sz_decimals_cache[c]
       /\ ~Listed(call'.coin) =>
             /\ sz_decimals_cache' = sz_decimals_cache
             /\ call'.op = "_get_sz_decimals" => call'.outcome = "raise"]_vars

\* a failed lookup on a client that has fetched the snapshot and cached both
\* listed coins
C10_Witness ==
    /\ call.op = "_get_sz_decimals" /\ call.outcome = "raise"
    /\ meta_calls = 1
    /\ DOMAIN sz_decimals_cache = {"BTC", "ETH"}

(***************************************************************************)
(* Properties of the quantizers, over the record of the last application.  *)
(***************************************************************************)
\* a + b for decimals a, b >= 0
DecAdd(a, b) ==
    [neg |-> FALSE,
     c   |-> Digits(BAdd(Limbs(MulPow10(StripZeros(a.c), a.e - Min(a.e, b.e))),
                         Limbs(MulPow10(StripZeros(b.c), b.e - Min(a.e, b.e))))),
     e   |-> Min(a.e, b.e)]

\* the float f is a whole multiple of 10^k
OnGrid(f, k) == IsZero(f) \/ NormDec(f).e >= k

\* the exponent of the leading digit of the float f > 0: floor(log10(f))
Magnitude(f) == Len(f.c) + f.e - 1

\* the first 13 significant digits of the float f are all 9
NinesLead(f) == Len(f.c) >= 13 /\ \A i \in 1..13 : f.c[i] = 9

\* the size decimals of the coin of the last application
QuantDecimals == ListedDecimals(quant.coin)

\* C6: for a raw size x > 0 and a listed coin of d size decimals
\* _round_size returns a multiple of 10^-d above zero: the largest one that
\* is at most x if x is at least 10^-d, and 10^-d itself if x is smaller;
\* d = 3 and x = 0.0002 give 0.001
C6_SizeQuantization ==
    (quant.op = "_round_size" /\ Listed(quant.coin) /\ DecLT(Zero, quant.x)) =>
        /\ quant.outcome = "return"
        /\ DecLT(Zero, quant.out)
        /\ OnGrid(quant.out, -QuantDecimals)
        /\ IF DecLE(Pow10Dec(-QuantDecimals), quant.x)
           THEN /\ DecLE(quant.out, quant.x)
                /\ DecLT(quant.x, DecAdd(quant.out, Pow10Dec(-QuantDecimals)))
           ELSE DecCmp(quant.out, Pow10Dec(-QuantDecimals)) = 0
        /\ (QuantDecimals = 3 /\ quant.x = Dec(2, -4)) => quant.out = Dec(1, -3)

\* a size below one lot step of a coin of 3 size decimals, raised to the
\* step
C6_Witness ==
    /\ quant.op = "_round_size" /\ Listed(quant.coin) /\ QuantDecimals = 3
    /\ quant.x = Dec(2, -4) /\ quant.out = Dec(1, -3)

\* C7: for a price p > 0 the result of _round_price is a multiple of the
\* step computed for p; rounded down it is at most p and less than one step
\* below it, rounded up it is at least p and less than one step above it; a
\* price that is a multiple of its step is returned as it is
C7_DirectionalRounding ==
    (quant.op = "_round_price" /\ DecLT(Zero, quant.x)) =>
        /\ OnGrid(quant.out, PriceStepMemo[quant.x].e)
        /\ quant.rounding = "down" =>
              /\ DecLE(quant.out, quant.x)
              /\ DecLT(quant.x, DecAdd(quant.out, PriceStepMemo[quant.x]))
        /\ quant.rounding = "up" =>
              /\ DecLE(quant.x, quant.out)
              /\ DecLT(quant.out, DecAdd(quant.x, PriceStepMemo[quant.x]))
        /\ OnGrid(quant.x, PriceStepMemo[quant.x].e) => quant.out = quant.x

\* a price off its grid, rounded up
C7_Witness ==
    /\ quant.op = "_round_price" /\ quant.rounding = "up"
    /\ DecLT(Zero, quant.x) /\ DecLT(quant.x, quant.out)

\* C8 as stated: for a price p > 0 the step is a power of ten, at most
\* 10^(floor(log10(p)) - 4) and at least 10^-6
C8_StepBound ==
    (quant.op = "_price_step_sigfigs" /\ DecLT(Zero, quant.x)) =>
        /\ NormDec(quant.out).c = <<1>> /\ ~quant.out.neg
        /\ NormDec(quant.out).e <= Magnitude(quant.x) - 4
        /\ NormDec(quant.out).e >= -6

\* C8, amended: for a price p > 0 the step is a power of ten and at least
\* 10^-6; it is 10^-6 for p < 0.01; for p >= 0.01 it is at most
\* 10^(floor(log10(p)) - 4), unless the first 13 significant digits of p are
\* all 9, and then it is at most ten times that
C8_SigfigStep ==
    (quant.op = "_price_step_sigfigs" /\ DecLT(Zero, quant.x)) =>
        /\ NormDec(quant.out).c = <<1>> /\ ~quant.out.neg
        /\ NormDec(quant.out).e >= -6
        /\ DecLT(quant.x, Dec(1, -2)) => NormDec(quant.out).e = -6
        /\ DecLE(Dec(1, -2), quant.x) =>
              NormDec(quant.out).e <=
                  Magnitude(quant.x) - (IF NinesLead(quant.x) THEN 3 ELSE 4)

\* a sub-cent price: the step is 10^-6, above 10^(floor(log10(p)) - 4)
C8_Witness ==
    /\ quant.op = "_price_step_sigfigs" /\ quant.x = Dec(3421, -8)
    /\ quant.out = MinStep
    /\ NormDec(quant.out).e > Magnitude(quant.x) - 4

\* C9 as stated: for a price p <= 0 _round_price, in either direction,
\* returns 10^-6
C9_NonPositivePrice ==
    (quant.op = "_round_price" /\ DecLE(quant.x, Zero)) =>
        DecCmp(quant.out, MinStep) = 0
====
